---- MODULE Spec2Model ----
(***************************************************************************)
(* Model of custom_components/goodwe/coordinator.py:                       *)
(* GoodweUpdateCoordinator, the polling coordinator of the GoodWe inverter *)
(* integration.                                                            *)
(*                                                                         *)
(* One coordinator instance is modelled.  A refresh cycle is the coroutine *)
(* _async_update_data; it suspends at each `await` (one per secondary      *)
(* entity update, one for the primary read), and the synchronous consumer  *)
(* operations (sensor_value, total_sensor_value, reset_sensor,             *)
(* entity_state_polling) may run on the event loop whenever the cycle is   *)
(* idle or suspended.                                                      *)
(*                                                                         *)
(* Python dictionaries are modelled by value (functions whose domain is    *)
(* the set of keys).  After line 53 `_last_data` and `data` may be the     *)
(* same object, but the only in-place mutation, reset_sensor, writes the   *)
(* same key and value to both, so value semantics gives the same contents. *)
(***************************************************************************)
EXTENDS Integers, Sequences, FiniteSets, TLC

\* ---------------------------------------------------------------- bounds
\* Largest value the device client's consecutive-failure counter reaches.
MaxStreak == 4

\* Most wake-up sends in flight at once, and most async_shutdown calls.
MaxInFlight == 2
MaxShutdowns == 2

\* ------------------------------------------------------- program constants
\* `if ex.consecutive_failures_count < 3` (line 61).
StreakLimit == 3

\* Python None as a sensor value (real sensor values are >= 0 here).
Null == -1

\* ------------------------------------------------------------ value sets
Sensors == {"power", "e_day"}
Readings == {Null, 0, 500}
Entities == {"e1", "e2"}
Intervals == {0, 30, 60}

\* self.data before the first cycle has stored a result.
None == [unset |-> TRUE]

\* The empty dict {}.
EmptyMap == [s \in {} |-> Null]

\* dict[str, Any] restricted to the modelled keys and values.
Snapshots == UNION {[D -> Readings] : D \in SUBSET Sensors}

\* ------------------------------------------------------- python helpers
\* Truthiness of a snapshot-or-None: None and {} are falsy.
DictTruthy(d) == d # None /\ d # EmptyMap

\* Truthiness of a sensor value: None and 0 are falsy.
ValTruthy(v) == v # Null /\ v # 0

\* dict.get(key) with the default None.
Get(d, k) == IF k \in DOMAIN d THEN d[k] ELSE Null

\* d[k] = v on a dict.
Put(d, k, v) == [s \in (DOMAIN d) \cup {k} |-> IF s = k THEN v ELSE d[s]]

VARIABLES
    data,        \* self.data (DataUpdateCoordinator): None or a snapshot
    last_data,   \* self._last_data
    polled,      \* self._polled_entities, in insertion order: <<entity, interval>>
    pc,          \* position of the refresh coroutine: "idle", "secondary", "read"
    todo,        \* list(self._polled_entities.items()) still to be visited
    streak,      \* the device client's consecutive-failure counter
    ev,          \* the operation that ran last, with its argument and outcome
    pre,         \* history: self.data when the running/last cycle started
    zs,          \* history: sensors reset while that cycle was in its secondary phase
    zr,          \* history: sensors reset while that cycle's primary read was in flight
    run,         \* history: failed primary reads since the last successful one
    scen,        \* history: progress through the three-cycle scenario of the spec
    good,        \* history: the snapshot of the last successful read, None after a reset
    nz,          \* history: sensors a successful read reported non-zero, not reset since
    zeroed,      \* history: sensors reset (normally) with no successful read since
    want,        \* history: the interval last passed to entity_state_polling, per entity
    want0,       \* history: the entities with a non-zero `want` when the cycle started
    upd,         \* history: the entities whose async_update the cycle has awaited, in order
    serr,        \* history: the entities whose async_update raised in that cycle
    listener,    \* the once-only EVENT_HOMEASSISTANT_STARTED listener is registered
    cancel_wakeup_interval,  \* self._cancel_wakeup_interval is set (not None)
    timers,      \* wake-up interval timers active in the host scheduler
    inflight,    \* _send_wakeup_packet coroutines suspended in command.execute
    shut,        \* calls of async_shutdown so far
    cancels,     \* history: calls of the timer's cancel callback so far
    sent,        \* history: a wake-up packet has been sent
    late,        \* history: a wake-up packet has been sent after an async_shutdown
    armed_down   \* history: async_shutdown has been called with the timer armed

hist == <<pre, zs, zr, run, scen, good, nz, zeroed, want, want0, upd, serr>>
wake == <<listener, cancel_wakeup_interval, timers, inflight, shut, cancels,
          sent, late, armed_down>>
vars == <<data, last_data, polled, pc, todo, streak, ev, hist, wake>>

Event(op, arg, n, ret, exc) ==
    [op |-> op, arg |-> arg, n |-> n, ret |-> ret, exc |-> exc]

\* ------------------------------------------------------------------ Init
Init ==
    /\ data = None
    /\ last_data = EmptyMap
    /\ polled = <<>>
    /\ pc = "idle"
    /\ todo = <<>>
    /\ streak = 0
    /\ ev = Event("init", "", 0, Null, "")
    /\ pre = None
    /\ zs = {}
    /\ zr = {}
    /\ run = 0
    /\ scen = 0
    /\ good = None
    /\ nz = {}
    /\ zeroed = {}
    /\ want = [e \in Entities |-> 0]
    /\ want0 = {}
    /\ upd = <<>>
    /\ serr = {}
    /\ listener = TRUE
    /\ cancel_wakeup_interval = FALSE
    /\ timers = 0
    /\ inflight = 0
    /\ shut = 0
    /\ cancels = 0
    /\ sent = FALSE
    /\ late = FALSE
    /\ armed_down = FALSE

\* --------------------------------------------------------- refresh cycle
\* Variant of line 53 without the fallback to {}.
Rotate_raw(d) == d

\* Line 53: self._last_data = self.data if self.data else {}
Rotate(d) == IF DictTruthy(d) THEN d ELSE EmptyMap

\* Lines 76-77: the items visited, those with a truthy interval.
PolledItems(items) == SelectSeq(items, LAMBDA it : it[2] # 0)

\* Variants of line 61 with the limit off by one, either way.
Tolerated_strict(count) == count < StreakLimit - 1
Tolerated_lenient(count) == count <= StreakLimit

\* Line 61: is a RequestFailedException with this count tolerated?
Tolerated(count) == count < StreakLimit

\* Variant of line 66 that returns a fresh empty mapping.
OnRequestFailed_empty(d, l, count) ==
    IF Tolerated(count) THEN <<EmptyMap, "">> ELSE <<d, "UpdateFailed">>

\* Lines 55-71: the outcome of a cycle whose read raised
\* RequestFailedException(count), as <<self.data afterwards, exception>>.
\* A returned mapping is stored in self.data by the base class; when
\* UpdateFailed is raised self.data is left alone.
OnRequestFailed(d, l, count) ==
    IF Tolerated(count) THEN <<l, "">> ELSE <<d, "UpdateFailed">>

\* Variant of lines 72-73 that applies the streak tolerance to every error.
OnInverterError_tolerant(d, l, count) ==
    IF Tolerated(count + 1) THEN <<l, "">> ELSE <<d, "UpdateFailed">>

\* Lines 72-73: the outcome of a cycle whose read raised another InverterError.
OnInverterError(d, l, count) == <<d, "UpdateFailed">>

\* The snapshot of the scenario of the spec.
P500 == [s \in {"power"} |-> 500]

\* The scheduler starts a cycle.  _update_polled_entities snapshots the
\* registry; with nothing to poll it never suspends, so line 53 runs and
\* the primary read is issued in the same step.
StartCycle ==
    /\ pc = "idle"
    /\ pre' = data
    /\ zs' = {}
    /\ zr' = {}
    /\ want0' = {e \in Entities : want[e] # 0}
    /\ todo' = PolledItems(polled)
    /\ IF todo' = <<>>
         THEN /\ last_data' = Rotate(data)
              /\ pc' = "read"
         ELSE /\ pc' = "secondary"
              /\ UNCHANGED last_data
    /\ upd' = <<>>
    /\ serr' = {}
    /\ ev' = Event("start", "", 0, Null, "")
    /\ UNCHANGED <<data, polled, streak, run, scen, good, nz, zeroed, want>>
    /\ UNCHANGED wake

\* Variant of line 80 that catches nothing.
Caught_nothing(exc) == FALSE

\* Line 80: `except InverterError` is the only handler around the update.
Caught(exc) == exc = "InverterError"

\* Variant of line 81 that also unregisters the entity that failed.
AfterEntityError_drop(reg, entity) ==
    SelectSeq(reg, LAMBDA it : it[1] # entity)

\* Line 81: the handler logs the entity's name; the registry stays as it is.
AfterEntityError(reg, entity) == reg

\* Lines 78-81: the awaited entity.async_update() of the head item
\* finishes, normally or with an error of the device client, which is an
\* InverterError.  The entity talks to the same device client, so the
\* streak counter follows.  A caught error is logged and the loop goes on;
\* an error that is not caught leaves _async_update_data and ends the cycle.
\* After the last item line 53 runs and the primary read is issued.
SecondaryUpdate ==
    /\ pc = "secondary"
    /\ \E exc \in {"", "InverterError"}, s \in {0, streak, streak + 1} :
        /\ s <= MaxStreak
        /\ exc = "" => s = 0
        /\ exc # "" => s # 0 \/ streak = 0
        /\ streak' = s
        /\ ev' = Event("async_update", Head(todo)[1], Head(todo)[2], Null, exc)
        /\ upd' = Append(upd, Head(todo)[1])
        /\ serr' = IF exc = "" THEN serr ELSE serr \cup {Head(todo)[1]}
        /\ IF exc = "" \/ Caught(exc)
             THEN /\ todo' = Tail(todo)
                  /\ polled' = IF exc = "" THEN polled
                               ELSE AfterEntityError(polled, Head(todo)[1])
                  /\ IF todo' = <<>>
                       THEN /\ last_data' = Rotate(data)
                            /\ pc' = "read"
                       ELSE UNCHANGED <<last_data, pc>>
             ELSE /\ todo' = <<>>
                  /\ pc' = "idle"
                  /\ UNCHANGED <<last_data, polled>>
    /\ UNCHANGED <<data, pre, zs, zr, run, scen, good, nz, zeroed,
                   want, want0>>
    /\ UNCHANGED wake

\* Line 54 returns a mapping; the base class stores it in self.data.
ReadSuccess(M) ==
    /\ pc = "read"
    /\ \E m \in M :
        /\ data' = m
        /\ good' = m
        /\ nz' = nz \cup {k \in Sensors : ValTruthy(Get(m, k))}
        /\ scen' = IF m = P500 THEN 1 ELSE 0
    /\ ev' = Event("read_ok", "", 0, Null, "")
    /\ streak' = 0
    /\ run' = 0
    /\ zeroed' = {}
    /\ pc' = "idle"
    /\ UNCHANGED <<last_data, polled, todo, pre, zs, zr, want, want0, upd, serr>>
    /\ UNCHANGED wake

\* Lines 55-71: read_runtime_data raises RequestFailedException carrying
\* the device client's incremented streak.
ReadRequestFailed ==
    /\ pc = "read"
    /\ streak < MaxStreak
    /\ streak' = streak + 1
    /\ data' = OnRequestFailed(data, last_data, streak')[1]
    /\ ev' = Event("read_rf", "", streak', Null,
                   OnRequestFailed(data, last_data, streak')[2])
    /\ run' = IF run <= MaxStreak THEN run + 1 ELSE run
    /\ scen' = IF scen = 1 /\ streak' = 1 THEN 2
               ELSE IF scen = 2 /\ streak' = 3 THEN 3 ELSE 0
    /\ pc' = "idle"
    /\ UNCHANGED <<last_data, polled, todo, pre, zs, zr, good, nz,
                   zeroed, want, want0, upd, serr>>
    /\ UNCHANGED wake

\* Lines 72-73: read_runtime_data raises an InverterError that is not a
\* RequestFailedException; what it does to the streak is the client's affair.
ReadInverterError ==
    /\ pc = "read"
    /\ \E s \in {0, streak, streak + 1} :
        /\ s <= MaxStreak
        /\ streak' = s
    /\ data' = OnInverterError(data, last_data, streak)[1]
    /\ ev' = Event("read_err", "", streak, Null,
                   OnInverterError(data, last_data, streak)[2])
    /\ run' = IF run <= MaxStreak THEN run + 1 ELSE run
    /\ scen' = 0
    /\ pc' = "idle"
    /\ UNCHANGED <<last_data, polled, todo, pre, zs, zr, good, nz,
                   zeroed, want, want0, upd, serr>>
    /\ UNCHANGED wake

\* ---------------------------------------------------- consumer operations
\* Lines 83-86, as <<returned value, exception>>.  self.data.get raises
\* AttributeError while self.data is still None.
sensor_value(d, l, sensor) ==
    IF d = None THEN <<Null, "AttributeError">>
    ELSE LET val == Get(d, sensor)
         IN  <<IF val # Null THEN val ELSE Get(l, sensor), "">>

\* Lines 88-91, as <<returned value, exception>>.
total_sensor_value(d, l, sensor) ==
    IF d = None THEN <<Null, "AttributeError">>
    ELSE LET val == Get(d, sensor)
         IN  <<IF ValTruthy(val) THEN val ELSE Get(l, sensor), "">>

\* Lines 99-100, as <<self.data, self._last_data, exception>> afterwards.
\* Line 99 has taken effect when line 100 raises TypeError on None.
reset_sensor(d, l, sensor) ==
    IF d = None THEN <<d, Put(l, sensor, 0), "TypeError">>
    ELSE <<Put(d, sensor, 0), Put(l, sensor, 0), "">>

\* Variant of lines 106-109 whose else branch removes nothing.
entity_state_polling_keep(reg, entity, interval) ==
    IF interval # 0
      THEN IF \E i \in 1..Len(reg) : reg[i][1] = entity
             THEN [i \in 1..Len(reg) |->
                      IF reg[i][1] = entity THEN <<entity, interval>> ELSE reg[i]]
             ELSE Append(reg, <<entity, interval>>)
      ELSE reg

\* Lines 106-109 on the ordered registry: assignment to an existing key
\* keeps its position, a new key goes last, pop(entity, None) removes it.
entity_state_polling(reg, entity, interval) ==
    IF interval # 0
      THEN IF \E i \in 1..Len(reg) : reg[i][1] = entity
             THEN [i \in 1..Len(reg) |->
                      IF reg[i][1] = entity THEN <<entity, interval>> ELSE reg[i]]
             ELSE Append(reg, <<entity, interval>>)
      ELSE SelectSeq(reg, LAMBDA it : it[1] # entity)

\* Variant of line 76 that walks the registry itself, so that a change made
\* while the loop is suspended shows in the items still to be visited.
SnapshotAfterChange_live(rest, entity, interval) ==
    IF rest = <<>> THEN rest ELSE entity_state_polling(rest, entity, interval)

\* Line 76: the loop walks list(self._polled_entities.items()), a copy, so
\* the items still to be visited are the same after the registry changes.
SnapshotAfterChange(rest, entity, interval) == rest

SensorValue(K) ==
    /\ \E k \in K :
        ev' = Event("sensor_value", k, 0, sensor_value(data, last_data, k)[1],
                    sensor_value(data, last_data, k)[2])
    /\ UNCHANGED <<data, last_data, polled, pc, todo, streak, hist>>
    /\ UNCHANGED wake

TotalSensorValue(K) ==
    /\ \E k \in K :
        ev' = Event("total_sensor_value", k, 0,
                    total_sensor_value(data, last_data, k)[1],
                    total_sensor_value(data, last_data, k)[2])
    /\ UNCHANGED <<data, last_data, polled, pc, todo, streak, hist>>
    /\ UNCHANGED wake

ResetSensor(K) ==
    /\ \E k \in K :
        LET r == reset_sensor(data, last_data, k) IN
        /\ data' = r[1]
        /\ last_data' = r[2]
        /\ ev' = Event("reset_sensor", k, 0, Null, r[3])
        /\ zs' = IF pc = "secondary" THEN zs \cup {k} ELSE zs
        /\ zr' = IF pc = "read" THEN zr \cup {k} ELSE zr
        /\ nz' = nz \ {k}
        /\ zeroed' = IF r[3] = "" THEN zeroed \cup {k} ELSE zeroed
    /\ good' = None
    /\ scen' = 0
    /\ UNCHANGED <<polled, pc, todo, streak, pre, run, want, want0, upd, serr>>
    /\ UNCHANGED wake

EntityStatePolling(E, I) ==
    /\ \E e \in E, i \in I :
        /\ polled' = entity_state_polling(polled, e, i)
        /\ todo' = SnapshotAfterChange(todo, e, i)
        /\ want' = [want EXCEPT ![e] = i]
        /\ ev' = Event("entity_state_polling", e, i, Null, "")
    /\ UNCHANGED <<data, last_data, pc, streak, pre, zs, zr, run,
                   scen, good, nz, zeroed, want0, upd, serr>>
    /\ UNCHANGED wake

\* ------------------------------------------------------ wake-up variant
\* GoodweUpdateCoordinatorWithWakeUp.  Time is not modelled: the interval
\* timer may fire whenever it is active.

\* Line 139: self._send_wakeup_packet() is called without await and without
\* creating a task, so the coroutine object is dropped and never runs: the
\* number of sends in flight stays as it is.
UnawaitedSend(n) == n

\* Lines 142-144 on <<handle set, active timers, cancel calls>>.
async_shutdown_keep(h, t, c) == IF h THEN <<TRUE, t - 1, c + 1>> ELSE <<h, t, c>>

\* Lines 142-144: cancel the timer and release the handle, if there is one.
async_shutdown(h, t, c) == IF h THEN <<FALSE, t - 1, c + 1>> ELSE <<h, t, c>>

\* Variant of lines 158-159 that lets the cancellation through.
WakeupRaises_cancel(outcome) ==
    IF outcome = "cancelled" THEN "CancelledError" ELSE ""

\* Lines 151-159: the exception that leaves _send_wakeup_packet, "" for a
\* normal return: a response and no response are logged, CancelledError is
\* caught and logged.
WakeupRaises(outcome) == ""

\* Lines 125-139: the host fires EVENT_HOMEASSISTANT_STARTED; the once-only
\* listener runs _start_wakeup_interval, which registers the interval timer
\* and keeps its cancel callback.
HomeAssistantStarted ==
    /\ listener
    /\ listener' = FALSE
    /\ timers' = timers + 1
    /\ cancel_wakeup_interval' = TRUE
    /\ inflight' = UnawaitedSend(inflight)
    /\ sent' = (sent \/ inflight' > inflight)
    /\ late' = (late \/ (inflight' > inflight /\ shut > 0))
    /\ ev' = Event("started", "", 0, Null, "")
    /\ UNCHANGED <<data, last_data, polled, pc, todo, streak, hist,
                   shut, cancels, armed_down>>

\* Lines 128-129 and 148-152: an active timer fires and its callback sends
\* the wake-up command, suspending in command.execute.
WakeupTick ==
    /\ timers > 0
    /\ inflight < MaxInFlight
    /\ inflight' = inflight + 1
    /\ sent' = TRUE
    /\ late' = (late \/ shut > 0)
    /\ ev' = Event("tick", "", 0, Null, "")
    /\ UNCHANGED <<data, last_data, polled, pc, todo, streak, hist,
                   listener, cancel_wakeup_interval, timers, shut, cancels,
                   armed_down>>

\* Lines 152-159: command.execute ends with a response, with None, or with
\* the task being cancelled.
WakeupDone ==
    /\ inflight > 0
    /\ inflight' = inflight - 1
    /\ \E outcome \in {"response", "none", "cancelled"} :
        ev' = Event("send_wakeup_packet", outcome, 0, Null,
                    WakeupRaises(outcome))
    /\ UNCHANGED <<data, last_data, polled, pc, todo, streak, hist,
                   listener, cancel_wakeup_interval, timers, shut, cancels,
                   sent, late, armed_down>>

\* Lines 141-146.  super().async_shutdown() is returned without await, so
\* the base class's shutdown coroutine is handed to the caller and this
\* method does nothing more; the listener of line 125 stays registered.
Shutdown ==
    /\ shut < MaxShutdowns
    /\ shut' = shut + 1
    /\ LET r == async_shutdown(cancel_wakeup_interval, timers, cancels) IN
        /\ cancel_wakeup_interval' = r[1]
        /\ timers' = r[2]
        /\ cancels' = r[3]
    /\ armed_down' = (armed_down \/ cancel_wakeup_interval)
    /\ ev' = Event("async_shutdown", "", 0, Null, "")
    /\ UNCHANGED <<data, last_data, polled, pc, todo, streak, hist,
                   listener, inflight, sent, late>>

\* The coordinator with every snapshot the device can report over Sensors
\* and one secondary entity switched on and off.
Next ==
    \/ StartCycle
    \/ SecondaryUpdate
    \/ ReadSuccess(Snapshots)
    \/ ReadRequestFailed
    \/ ReadInverterError
    \/ SensorValue(Sensors)
    \/ TotalSensorValue(Sensors)
    \/ ResetSensor(Sensors)
    \/ EntityStatePolling({"e1"}, {0, 30})

Spec == Init /\ [][Next]_vars

\* The coordinator with every entity and interval of the registry and the
\* device reporting the scenario's snapshot or nothing.
NextPoll ==
    \/ StartCycle
    \/ SecondaryUpdate
    \/ ReadSuccess({EmptyMap, P500})
    \/ ReadRequestFailed
    \/ ReadInverterError
    \/ SensorValue({"power"})
    \/ TotalSensorValue({"power"})
    \/ ResetSensor({"power"})
    \/ EntityStatePolling(Entities, Intervals)

SpecPoll == Init /\ [][NextPoll]_vars

\* The wake-up variant: the refresh cycle with one entity and the device
\* reporting the scenario's snapshot, the host's started event, the wake-up
\* timer and shutdown.
NextWake ==
    \/ StartCycle
    \/ SecondaryUpdate
    \/ ReadSuccess({P500})
    \/ ReadRequestFailed
    \/ ReadInverterError
    \/ EntityStatePolling({"e1"}, {0, 30})
    \/ HomeAssistantStarted
    \/ WakeupTick
    \/ WakeupDone
    \/ Shutdown

SpecWake == Init /\ [][NextWake]_vars

\* ================================================================ claims
\* A snapshot with the value zero for every sensor of K.
ZeroedOn(m, K) == [s \in (DOMAIN m) \cup K |-> IF s \in K THEN 0 ELSE m[s]]

\* A snapshot-or-None read as a mapping: unset counts as empty.
OrEmpty(d) == IF d = None THEN EmptyMap ELSE d

\* self.data when the secondary phase of the cycle ended: the pre-cycle
\* value with the resets made meanwhile (a reset cannot write into None).
AtRotation == IF pre = None THEN None ELSE ZeroedOn(pre, zs)

\* self.data when the primary read of the cycle ended, had the cycle's own
\* handling of the outcome not touched it.
AtReadEnd == IF AtRotation = None THEN None ELSE ZeroedOn(AtRotation, zr)

\* self._last_data when the primary read of the cycle ended.
LastAtReadEnd == ZeroedOn(OrEmpty(AtRotation), zr)

ToleratedFailure == ev.op = "read_rf" /\ ev.n < 3
SustainedFailure == ev.op = "read_rf" /\ ev.n >= 3

\* C1 as stated: a cycle whose read fails with RequestFailed(count < 3)
\* succeeds and returns exactly the pre-cycle current snapshot (the empty
\* mapping when that was unset or empty).
C1_ReturnsPreCycleCurrent ==
    ToleratedFailure => ev.exc = "" /\ data = OrEmpty(pre)

\* C1 amended: such a cycle succeeds and returns _last_data as it stands
\* when the read fails: the snapshot that was current when the secondary
\* phase ended (empty when unset or empty) with zero for every sensor reset
\* while the read was in flight; with no reset_sensor call during the cycle
\* that is exactly the pre-cycle current.
C1_ReturnsLastKnown ==
    ToleratedFailure =>
        /\ ev.exc = ""
        /\ data = LastAtReadEnd
        /\ data = last_data
        /\ (zs = {} /\ zr = {} => data = OrEmpty(pre))

C1_Witness ==
    /\ ToleratedFailure
    /\ ev.n = 2
    /\ pre = P500
    /\ zr = {"power"}
    /\ data = [power |-> 0]

\* C2 as stated: a cycle whose read fails with RequestFailed(count >= 3)
\* reports an update failure, leaves current at its pre-cycle value and
\* lastKnown at the rotated pre-cycle current.
C2_LeavesPreCycleCurrent ==
    SustainedFailure =>
        /\ ev.exc = "UpdateFailed"
        /\ data = pre
        /\ last_data = OrEmpty(pre)

\* C2 amended: such a cycle reports an update failure and its failure
\* handling changes neither snapshot: current and lastKnown are what they
\* were when the read ended, i.e. the pre-cycle current and its rotation
\* with zero for the sensors reset during the cycle; with no reset_sensor
\* call during the cycle current is its pre-cycle value and lastKnown the
\* pre-cycle current (empty when unset).
C2_FailureLeavesSnapshots ==
    SustainedFailure =>
        /\ ev.exc = "UpdateFailed"
        /\ data = AtReadEnd
        /\ last_data = LastAtReadEnd
        /\ (zs = {} /\ zr = {} => data = pre /\ last_data = OrEmpty(pre))

C2_Witness ==
    /\ SustainedFailure
    /\ ev.n = 3
    /\ ev.exc = "UpdateFailed"
    /\ zs = {} /\ zr = {}
    /\ pre = P500
    /\ last_data = P500

\* C3: when the count carried by a RequestFailed read is its position in
\* the unbroken run of failed reads, the cycle is reported as failed exactly
\* from the third failure on; and the cycles read {power: 500},
\* RequestFailed(1), RequestFailed(3) yield {power: 500}, {power: 500},
\* failure, with lastKnown = {power: 500} at the end.
C3_ThirdFailureEscalates ==
    /\ ev.op = "read_rf" /\ ev.n = run =>
           (ev.exc = "UpdateFailed" <=> run >= 3)
    /\ ev.op = "read_rf" /\ ev.n = run /\ run < 3 => ev.exc = ""
    /\ ev.op = "read_ok" /\ scen = 1 => data = P500
    /\ ev.op = "read_rf" /\ scen = 2 => ev.exc = "" /\ data = P500
    /\ ev.op = "read_rf" /\ scen = 3 =>
           ev.exc = "UpdateFailed" /\ data = P500 /\ last_data = P500

C3_Witness ==
    /\ ev.op = "read_rf"
    /\ scen = 3
    /\ ev.n = 3
    /\ run = 2

\* C4: a cycle whose read fails with an InverterError other than
\* RequestFailed reports an update failure whatever the streak is, and
\* stores nothing in current.
C4_OtherErrorEscalates ==
    ev.op = "read_err" =>
        /\ ev.exc = "UpdateFailed"
        /\ data = AtReadEnd

C4_Witness ==
    /\ ev.op = "read_err"
    /\ ev.n = 0
    /\ streak < 3
    /\ ev.exc = "UpdateFailed"
    /\ data = P500
    /\ last_data = P500

\* C5: while no read has succeeded and no sensor has been reset since a
\* successful cycle stored S, sensor_value(id) returns S[id] for every id
\* whose value in S is not null.
C5_StaleValuesStay ==
    good # None =>
        \A k \in DOMAIN good :
            good[k] # Null =>
                sensor_value(data, last_data, k) = <<good[k], "">>

C5_Witness ==
    /\ good = P500
    /\ ev.op = "read_err"
    /\ run = 4
    /\ streak = 3

\* Does the snapshot hold a value other than null for the sensor?
HasValue(d, k) == d # None /\ k \in DOMAIN d /\ d[k] # Null

\* C6 as stated: sensor_value(id) returns current[id] when current has a
\* non-null value for id, otherwise lastKnown[id], otherwise null; so it
\* never returns null while either snapshot has a non-null value for id,
\* and a current value of zero is returned as zero.
C6_SensorValue ==
    ev.op = "sensor_value" =>
        /\ ev.exc = ""
        /\ ev.ret = IF HasValue(data, ev.arg) THEN data[ev.arg]
                    ELSE Get(last_data, ev.arg)
        /\ (HasValue(data, ev.arg) \/ HasValue(last_data, ev.arg)
               => ev.ret # Null)
        /\ (HasValue(data, ev.arg) /\ data[ev.arg] = 0 => ev.ret = 0)

\* C6 once current is set: the same statement for the calls made after a
\* cycle has stored a snapshot.
C6_SensorValueOnceSet ==
    ev.op = "sensor_value" /\ data # None => C6_SensorValue

\* C7 as stated: total_sensor_value(id) returns lastKnown[id] whenever
\* current[id] is zero, null or absent, and current[id] otherwise.
C7_TotalSensorValue ==
    ev.op = "total_sensor_value" =>
        /\ ev.exc = ""
        /\ ev.ret = IF HasValue(data, ev.arg) /\ data[ev.arg] # 0
                      THEN data[ev.arg]
                      ELSE Get(last_data, ev.arg)

\* C7 once current is set.
C7_TotalSensorValueOnceSet ==
    ev.op = "total_sensor_value" /\ data # None => C7_TotalSensorValue

\* C8 as stated: once a successful read has reported a non-zero value for
\* id, and with no reset_sensor(id) since, total_sensor_value(id) returns
\* neither zero nor null.
C8_TotalNeverZero ==
    \A k \in nz :
        /\ total_sensor_value(data, last_data, k)[1] # 0
        /\ total_sensor_value(data, last_data, k)[1] # Null

\* C9 as stated: reset_sensor(id) leaves id at zero in both snapshots, and
\* from then on sensor_value(id) returns zero until a read succeeds,
\* whatever the refresh cycle does and wherever it was suspended.
C9_ResetSticks ==
    /\ ev.op = "reset_sensor" =>
           /\ ev.exc = ""
           /\ HasValue(data, ev.arg) /\ data[ev.arg] = 0
           /\ HasValue(last_data, ev.arg) /\ last_data[ev.arg] = 0
    /\ \A k \in zeroed : sensor_value(data, last_data, k) = <<0, "">>

\* C9 for the calls made once current is set: a reset_sensor(id) that ran
\* to its end keeps sensor_value(id) at zero until a read succeeds.
C9_ResetSticksOnceSet ==
    /\ ev.op = "reset_sensor" /\ ev.exc = "" =>
           /\ HasValue(data, ev.arg) /\ data[ev.arg] = 0
           /\ HasValue(last_data, ev.arg) /\ last_data[ev.arg] = 0
    /\ \A k \in zeroed : sensor_value(data, last_data, k) = <<0, "">>

\* The positions of the registry that hold the entity.
EntriesOf(reg, e) == {i \in 1..Len(reg) : reg[i][1] = e}

\* C10: the registry holds exactly one entry <<consumer, interval>> for
\* every consumer whose last entity_state_polling call had a non-zero
\* interval and none for the others; repeating a call changes nothing; and
\* a cycle only updates consumers that were registered when it started.
C10_PollingRegistry ==
    /\ \A e \in Entities :
           IF want[e] # 0
             THEN \E i \in 1..Len(polled) :
                      /\ EntriesOf(polled, e) = {i}
                      /\ polled[i] = <<e, want[e]>>
             ELSE EntriesOf(polled, e) = {}
    /\ \A e \in Entities, i \in Intervals :
           entity_state_polling(entity_state_polling(polled, e, i), e, i)
               = entity_state_polling(polled, e, i)
    /\ \A e \in Entities :
           want[e] = 0 => entity_state_polling(polled, e, 0) = polled
    /\ ev.op = "async_update" => ev.arg \in want0

C10_Witness ==
    /\ ev.op = "async_update"
    /\ ev.arg = "e2"
    /\ ev.n = 60
    /\ want0 = {"e2"}
    /\ polled = << <<"e2", 60>> >>
    /\ todo = <<>>

\* The entities of a sequence.
Range(seq) == {seq[i] : i \in 1..Len(seq)}

\* The primary read of the cycle has just ended.
CycleEnded == ev.op \in {"read_ok", "read_rf", "read_err"}

\* C11: an InverterError raised by a secondary entity's update does not end
\* the cycle: the loop goes on, every entity registered at the start of the
\* cycle has been updated when the primary read is issued, line 53 has
\* rotated the snapshot, and the cycle's result is that of the read alone.
C11_SecondaryErrorSwallowed ==
    /\ ev.op = "async_update" => pc \in {"secondary", "read"}
    /\ pc = "secondary" => todo # <<>>
    /\ pc = "read" \/ CycleEnded =>
           /\ Range(upd) = want0
           /\ Len(upd) = Cardinality(want0)
           /\ serr \subseteq Range(upd)
           /\ last_data = LastAtReadEnd
    /\ ev.op = "read_ok" => ev.exc = ""
    /\ ev.op = "read_rf" => (ev.exc = "" <=> ev.n < 3)

C11_Witness ==
    /\ ev.op = "read_ok"
    /\ serr = {"e1"}
    /\ upd = <<"e1", "e2">>
    /\ data = P500

\* C12 as stated: when the started event arrives the wake-up timer is
\* registered and its handle kept, and one wake-up request is sent at once,
\* without waiting for the first tick of the timer.
C12_ArmsAndSendsAtOnce ==
    ev.op = "started" =>
        /\ timers = 1
        /\ cancel_wakeup_interval
        /\ inflight >= 1
        /\ sent

\* C13: once async_shutdown has been called with the timer armed, the timer
\* is cancelled and the handle released, no timer tick sends a wake-up any
\* more, and the cancel callback has been called exactly once however often
\* async_shutdown is called; a shutdown that never found the timer armed has
\* not called it at all.
C13_ShutdownCancelsOnce ==
    /\ ev.op = "async_shutdown" => ~cancel_wakeup_interval
    /\ armed_down =>
           /\ timers = 0
           /\ ~cancel_wakeup_interval
           /\ cancels = 1
           /\ ev.op # "tick"
    /\ ~armed_down => cancels = 0
    /\ ~armed_down /\ shut > 0 /\ listener => timers = 0

C13_Witness ==
    /\ ev.op = "async_shutdown"
    /\ armed_down
    /\ shut = 2
    /\ cancels = 1
    /\ sent

\* C14: a wake-up send that ends by cancellation returns normally, with no
\* exception leaving _send_wakeup_packet, and leaves the timer and its
\* handle as they were.
C14_CancelledSendReturns ==
    [][ev'.op = "send_wakeup_packet" /\ ev'.arg = "cancelled" =>
          /\ ev'.exc = ""
          /\ timers' = timers
          /\ cancel_wakeup_interval' = cancel_wakeup_interval]_vars

C14_Witness ==
    /\ ev.op = "send_wakeup_packet"
    /\ ev.arg = "cancelled"
    /\ ev.exc = ""
    /\ timers = 1
    /\ cancel_wakeup_interval
    /\ shut = 0

\* C15 as stated: while the primary read is in flight and in every outcome
\* of it, every secondary update of the cycle has completed and lastKnown
\* equals the pre-cycle current (empty when that was unset).
C15_LastKnownIsPreCycle ==
    pc = "read" \/ CycleEnded =>
        /\ todo = <<>>
        /\ Range(upd) = want0
        /\ last_data = OrEmpty(pre)

\* C15 amended: while the primary read is in flight and in every outcome of
\* it, every secondary update of the cycle has completed, and lastKnown is
\* the snapshot that was current when the secondary phase ended (empty when
\* unset or empty) with zero for every sensor reset since; it holds nothing
\* of the read in progress, and with no reset_sensor call during the cycle
\* it is exactly the pre-cycle current.
C15_LastKnownIsRotation ==
    /\ pc = "secondary" => todo # <<>> /\ Len(upd) < Cardinality(want0)
    /\ pc = "read" \/ CycleEnded =>
           /\ todo = <<>>
           /\ Range(upd) = want0
           /\ last_data = LastAtReadEnd
           /\ (zs = {} /\ zr = {} => last_data = OrEmpty(pre))

C15_Witness ==
    /\ ev.op = "read_ok"
    /\ upd = <<"e1">>
    /\ pre = P500
    /\ zr = {"e_day"}
    /\ last_data # OrEmpty(pre)
    /\ last_data = LastAtReadEnd

\* C16 as stated: at most one wake-up timer is active, and once
\* async_shutdown has run no timer is active and no wake-up is sent.
C16_NoTimerAfterShutdown ==
    /\ timers <= 1
    /\ shut > 0 => timers = 0 /\ ~late

\* C17 as stated: sensor_value, total_sensor_value and reset_sensor never
\* raise, also before any cycle has stored a snapshot, and reset_sensor
\* leaves the sensor at zero in both snapshots.
C17_ConsumerOpsTotal ==
    /\ ev.op \in {"sensor_value", "total_sensor_value", "reset_sensor"} =>
           ev.exc = ""
    /\ ev.op = "reset_sensor" =>
           /\ data # None
           /\ Get(data, ev.arg) = 0
           /\ Get(last_data, ev.arg) = 0

\* C18: only entity_state_polling changes the registry; a refresh cycle and
\* a wake-up send, whatever their outcome, leave it as it was, and the
\* wake-up steps leave both snapshots as they were.
C18_RegistryFrame ==
    [][/\ ev'.op # "entity_state_polling" => polled' = polled
       /\ ev'.op \in {"started", "tick", "send_wakeup_packet", "async_shutdown"} =>
              data' = data /\ last_data' = last_data]_vars

C18_Witness ==
    /\ ev.op = "send_wakeup_packet"
    /\ ev.arg = "none"
    /\ serr = {"e1"}
    /\ polled = << <<"e1", 30>> >>
    /\ data = P500
    /\ pc = "idle"

\* C19: a cycle updates exactly the entities registered when it started,
\* each once: one removed while the cycle is suspended is still updated,
\* one added meanwhile is not, and the loop always reaches the primary read.
C19_CycleUsesStartSnapshot ==
    /\ \A i, j \in 1..Len(upd) : i # j => upd[i] # upd[j]
    /\ Range(upd) \subseteq want0
    /\ pc = "secondary" =>
           /\ todo # <<>>
           /\ Range(upd) \cup {todo[i][1] : i \in 1..Len(todo)} = want0
           /\ Len(upd) + Len(todo) = Cardinality(want0)
    /\ pc = "read" \/ CycleEnded => Range(upd) = want0

C19_Witness ==
    /\ pc = "read"
    /\ upd = <<"e1">>
    /\ want0 = {"e1"}
    /\ want["e1"] = 0
    /\ want["e2"] = 60
    /\ polled = << <<"e2", 60>> >>

====
